---- MODULE Spec2Model ----
(***************************************************************************)
(* Model of the wine-label recognition backend: the response normalizer    *)
(* (RapidAPIClient._parse_candidates), the retrying dispatcher             *)
(* (RapidAPIClient._call_with_retry) and the two recognition endpoints     *)
(* (recognize_file, recognize_url).                                        *)
(*                                                                         *)
(* Conventions.  A Python str is a sequence of one-character strings.  A   *)
(* float confidence c is the integer 10 * c (0.5 is 5, 1.0 is 10).  A JSON *)
(* value is a record with a type tag t; a key that is not in its object    *)
(* has the tag "absent".  The variables pc .. saved are the frame of the   *)
(* request the event loop is running; peer is the frame of a second        *)
(* request, suspended at an await.                                         *)
(***************************************************************************)
EXTENDS Integers, Sequences, FiniteSets, TLC

VARIABLES
    raw,            \* normalizer: the envelope handed to _parse_candidates
    norm,           \* normalizer: outcome of the call, [state, cands]
    settings,       \* Settings: read-only configuration of the process
    pc,             \* position of the request: "idle", "awaiting", "done"
    request,        \* the request being served: [endpoint, top_k, include_raw]
    attempt,        \* _call_with_retry: loop variable `attempt`
    last_exc,       \* _call_with_retry: local `last_exc`
    sent,           \* number of upstream requests issued by request_fn
    upstream,       \* outcomes of the upstream requests, in order
    call,           \* outcome of _call_with_retry: returned value or exception
    http,           \* HTTP response of the endpoint
    saved,          \* responses written by _save_result_to_file
    peer,           \* the frame of the other request, suspended at its await
    now,            \* time.perf_counter(), in milliseconds
    t0,             \* _call_with_retry: local `t0`
    spans,          \* when each upstream request was issued and when it ended
    log             \* records emitted by the logger of _call_with_retry

parseVars == <<raw, norm>>
dispatchVars ==
    <<settings, pc, request, attempt, last_exc, sent, upstream, call, http, saved,
      peer, now, t0, spans, log>>
vars == <<raw, norm, settings, pc, request, attempt, last_exc, sent, upstream,
          call, http, saved, peer, now, t0, spans, log>>

----------------------------------------------------------------------------
(* Bounds of the model *)

MaxResults == 2       \* results of an envelope
MaxEntities == 2      \* entities of a result
MaxClasses == 3       \* class entries of an entity
MaxRetries == 2       \* largest configured http_max_retries
MaxAttemptMs == 2     \* longest upstream request, in ticks of the clock

----------------------------------------------------------------------------
(* JSON scalars *)

Absent == [t |-> "absent", n |-> 0, s |-> <<>>]
Null == [t |-> "null", n |-> 0, s |-> <<>>]
Num(n) == [t |-> "num", n |-> n, s |-> <<>>]
Str(s) == [t |-> "str", n |-> 0, s |-> s]

\* Python truthiness of a scalar, as used by `x or default`.
Falsy(v) ==
    \/ v.t \in {"absent", "null"}
    \/ v.t = "num" /\ v.n = 0
    \/ v.t = "str" /\ v.s = <<>>

----------------------------------------------------------------------------
(* str methods *)

Whitespace == {" ", "\t", "\n"}

RECURSIVE lstrip(_)
lstrip(s) ==
    IF s = <<>> THEN <<>>
    ELSE IF Head(s) \in Whitespace THEN lstrip(Tail(s))
    ELSE s

RECURSIVE rstrip(_)
rstrip(s) ==
    IF s = <<>> THEN <<>>
    ELSE IF s[Len(s)] \in Whitespace THEN rstrip(SubSeq(s, 1, Len(s) - 1))
    ELSE s

\* str.strip()
strip(s) == rstrip(lstrip(s))

UpperCase == <<"A", "B", "C", "D", "E", "F", "G", "H", "I", "J", "K", "L", "M",
               "N", "O", "P", "Q", "R", "S", "T", "U", "V", "W", "X", "Y", "Z">>
LowerCase == <<"a", "b", "c", "d", "e", "f", "g", "h", "i", "j", "k", "l", "m",
               "n", "o", "p", "q", "r", "s", "t", "u", "v", "w", "x", "y", "z">>

lowerChar(c) ==
    IF \E i \in 1..Len(UpperCase) : UpperCase[i] = c
    THEN LowerCase[CHOOSE i \in 1..Len(UpperCase) : UpperCase[i] = c]
    ELSE c

\* str.lower()
lower(s) == [i \in 1..Len(s) |-> lowerChar(s[i])]

Digits == <<"0", "1", "2", "3", "4", "5", "6", "7", "8", "9">>

IsDigit(c) == \E i \in 1..Len(Digits) : Digits[i] = c
DigitValue(c) == (CHOOSE i \in 1..Len(Digits) : Digits[i] = c) - 1

\* The strings float() accepts, among the strings of the model: "d.d".
IsFloatLiteral(s) ==
    /\ Len(s) = 3
    /\ IsDigit(s[1]) /\ s[2] = "." /\ IsDigit(s[3])

FloatLiteralValue(s) == 10 * DigitValue(s[1]) + DigitValue(s[3])

----------------------------------------------------------------------------
(* WineCandidate *)

ConfidenceGe == 0       \* Field(ge=0.0)
ConfidenceLe == 10      \* Field(le=1.0)

\* Mutant of WineCandidateValid: Field(ge=0.0), without the upper limit.
WineCandidateValid_without_le(confidence) == confidence >= ConfidenceGe

\* Pydantic accepts WineCandidate(label=..., confidence=confidence).
WineCandidateValid(confidence) ==
    confidence >= ConfidenceGe /\ confidence <= ConfidenceLe

WineCandidate(label, confidence) == [label |-> label, confidence |-> confidence]

----------------------------------------------------------------------------
(* _parse_candidates *)

Raised == [state |-> "raised", cands |-> <<>>]
Returned(cands) == [state |-> "returned", cands |-> cands]
Pending == [state |-> "pending", cands |-> <<>>]

\* Mutant of AcceptedCodes: the empty code is not tolerated.
AcceptedCodes_no_empty == {<<"o", "k">>, <<"s", "u", "c", "c", "e", "s", "s">>}

\* ("ok", "success", "")
AcceptedCodes == {<<"o", "k">>, <<"s", "u", "c", "c", "e", "s", "s">>, <<>>}

\* status = result.get("status", {}) raises nothing; status.get("code", "")
\* needs a dict and .lower() needs a str.
StatusRaises(result) ==
    \/ result.status.t \notin {"absent", "obj"}
    \/ result.status.t = "obj" /\ result.status.code.t \notin {"absent", "str"}

\* status.get("code", "")
StatusCode(result) ==
    IF result.status.t = "obj" /\ result.status.code.t = "str"
    THEN result.status.code.s
    ELSE <<>>

\* status.get("code", "").lower() not in ("ok", "success", "")
StatusSkipped(result) == lower(StatusCode(result)) \notin AcceptedCodes

\* (cls.get("class") or "").strip() needs a str once the value is truthy.
LabelRaises(cls) == ~Falsy(cls.class) /\ cls.class.t # "str"

\* label = (cls.get("class") or "").strip()
Label(cls) == IF Falsy(cls.class) THEN <<>> ELSE strip(cls.class.s)

\* confidence = float(cls.get("score") or 0.0), 0.0 on TypeError / ValueError
Confidence(cls) ==
    IF Falsy(cls.score) THEN 0
    ELSE IF cls.score.t = "num" THEN cls.score.n
    ELSE IF IsFloatLiteral(cls.score.s) THEN FloatLiteralValue(cls.score.s)
    ELSE 0

\* Iterating a classes value: a list yields its items, a dict yields its keys
\* (each a str), a missing key yields the default [].
ClassesRaises(entity) == entity.classes.t \in {"null", "num"}

ClassesIter(entity) ==
    IF entity.classes.t = "list" THEN entity.classes.items
    ELSE IF entity.classes.t = "map"
    THEN [i \in 1..Len(entity.classes.pairs) |->
            [t |-> "str", s |-> entity.classes.pairs[i].key,
             class |-> Absent, score |-> Absent]]
    ELSE <<>>

\* for cls in classes: ... candidates.append(WineCandidate(...))
RECURSIVE ClassesLoop(_, _)
ClassesLoop(classes, candidates) ==
    IF classes = <<>> THEN Returned(candidates)
    ELSE LET cls == Head(classes) IN
        IF cls.t # "obj" THEN ClassesLoop(Tail(classes), candidates)
        ELSE IF LabelRaises(cls) THEN Raised
        ELSE IF Label(cls) = <<>> THEN ClassesLoop(Tail(classes), candidates)
        ELSE IF ~WineCandidateValid(Confidence(cls)) THEN Raised
        ELSE ClassesLoop(Tail(classes),
                 Append(candidates, WineCandidate(Label(cls), Confidence(cls))))

\* for entity in entities: classes = entity.get("classes", [])
RECURSIVE EntitiesLoop(_, _)
EntitiesLoop(entities, candidates) ==
    IF entities = <<>> THEN Returned(candidates)
    ELSE LET entity == Head(entities) IN
        IF entity.t # "obj" THEN Raised
        ELSE IF ClassesRaises(entity) THEN Raised
        ELSE LET r == ClassesLoop(ClassesIter(entity), candidates) IN
            IF r.state = "raised" THEN Raised
            ELSE EntitiesLoop(Tail(entities), r.cands)

EntitiesRaises(result) == result.entities.t \in {"null", "num"}

EntitiesIter(result) ==
    IF result.entities.t = "list" THEN result.entities.items ELSE <<>>

\* for result in results: status check, then the entities
RECURSIVE ResultsLoop(_, _)
ResultsLoop(results, candidates) ==
    IF results = <<>> THEN Returned(candidates)
    ELSE LET result == Head(results) IN
        IF result.t # "obj" THEN Raised
        ELSE IF StatusRaises(result) THEN Raised
        ELSE IF StatusSkipped(result) THEN ResultsLoop(Tail(results), candidates)
        ELSE IF EntitiesRaises(result) THEN Raised
        ELSE LET r == EntitiesLoop(EntitiesIter(result), candidates) IN
            IF r.state = "raised" THEN Raised
            ELSE ResultsLoop(Tail(results), r.cands)

\* Mutant of CollectCandidates: raw["results"], a KeyError without the key.
CollectCandidates_requires_results(envelope) ==
    IF envelope.results.t \in {"absent", "null", "num"} THEN Raised
    ELSE ResultsLoop(envelope.results.items, <<>>)

\* The candidates list as it stands before the final sort.
CollectCandidates(envelope) ==
    IF envelope.results.t \in {"null", "num"} THEN Raised
    ELSE ResultsLoop(IF envelope.results.t = "list"
                     THEN envelope.results.items ELSE <<>>, <<>>)

\* Mutant of InsertDescending: an element goes in front of its equals, as in
\* sorted(candidates, key=...)[::-1].
RECURSIVE InsertDescending_before_equals(_, _)
InsertDescending_before_equals(c, sorted) ==
    IF sorted = <<>> THEN <<c>>
    ELSE IF Head(sorted).confidence > c.confidence
    THEN <<Head(sorted)>> \o InsertDescending_before_equals(c, Tail(sorted))
    ELSE <<c>> \o sorted

\* One step of the stable descending sort: c goes behind every element whose
\* confidence is at least its own.
RECURSIVE InsertDescending(_, _)
InsertDescending(c, sorted) ==
    IF sorted = <<>> THEN <<c>>
    ELSE IF Head(sorted).confidence >= c.confidence
    THEN <<Head(sorted)>> \o InsertDescending(c, Tail(sorted))
    ELSE <<c>> \o sorted

\* sorted(candidates, key=lambda c: c.confidence, reverse=True)
RECURSIVE SortedByConfidence(_)
SortedByConfidence(candidates) ==
    IF candidates = <<>> THEN <<>>
    ELSE InsertDescending(candidates[Len(candidates)],
             SortedByConfidence(SubSeq(candidates, 1, Len(candidates) - 1)))

\* RapidAPIClient._parse_candidates(raw)
_parse_candidates(envelope) ==
    LET collected == CollectCandidates(envelope) IN
    IF collected.state = "raised" THEN Raised
    ELSE Returned(SortedByConfidence(collected.cands))

----------------------------------------------------------------------------
(* Envelopes handed to the normalizer *)

ClassEntry(class, score) ==
    [t |-> "obj", s |-> <<>>, class |-> class, score |-> score]
StrEntry(s) == [t |-> "str", s |-> s, class |-> Absent, score |-> Absent]

ClassesList(items) == [t |-> "list", items |-> items, pairs |-> <<>>]
ClassesMap(pairs) == [t |-> "map", items |-> <<>>, pairs |-> pairs]
ClassesOther(t) == [t |-> t, items |-> <<>>, pairs |-> <<>>]

Entity(classes) == [t |-> "obj", classes |-> classes]
StrEntity == [t |-> "str", classes |-> ClassesOther("absent")]

EntitiesList(items) == [t |-> "list", items |-> items]
EntitiesOther(t) == [t |-> t, items |-> <<>>]

StatusObj(code) == [t |-> "obj", code |-> code]
StatusOther(t) == [t |-> t, code |-> Absent]

Result(status, entities) ==
    [t |-> "obj", status |-> status, entities |-> entities]
StrResult ==
    [t |-> "str", status |-> StatusOther("absent"),
     entities |-> EntitiesOther("absent")]

ResultsList(items) == [t |-> "list", items |-> items]
ResultsOther(t) == [t |-> t, items |-> <<>>]

Envelope(results) == [results |-> results]

\* Class entries: well-formed ones with ties, padded labels and blank labels,
\* and every malformed class / score.
ClassEntrySet ==
    { StrEntry(<<"x">>),
      ClassEntry(Str(<<"A">>), Num(5)),
      ClassEntry(Str(<<"B">>), Num(5)),
      ClassEntry(Str(<<" ", "A", " ">>), Num(8)),
      ClassEntry(Str(<<"B">>), Num(10)),
      ClassEntry(Str(<<" ", "\t">>), Num(8)),
      ClassEntry(Str(<<>>), Num(8)),
      ClassEntry(Null, Num(5)),
      ClassEntry(Str(<<"C">>), Str(<<"0", ".", "8">>)),
      ClassEntry(Str(<<"C">>), Str(<<"a", "b", "c">>)),
      ClassEntry(Str(<<"B">>), Absent),
      ClassEntry(Str(<<"A">>), Num(15)),
      ClassEntry(Str(<<"A">>), Num(-5)),
      ClassEntry(Num(7), Num(5)),
      ClassEntry(Str(<<" ">>), Num(15)) }

OkStatus == StatusObj(Str(<<"o", "k">>))

\* One accepted result with one entity whose classes is the list cs.
ClassListEnvelope(cs) ==
    Envelope(ResultsList(<<Result(OkStatus,
                                  EntitiesList(<<Entity(ClassesList(cs))>>))>>))

\* Entities of every shape of classes, well-formed and not.
EntitySet ==
    { StrEntity,
      Entity(ClassesOther("absent")),
      Entity(ClassesOther("null")),
      Entity(ClassesMap(<<[key |-> <<"X">>, value |-> Num(5)],
                          [key |-> <<"Y">>, value |-> Num(8)]>>)),
      Entity(ClassesList(<<ClassEntry(Str(<<"A">>), Num(5))>>)),
      Entity(ClassesList(<<ClassEntry(Str(<<"B">>), Num(8))>>)),
      Entity(ClassesList(<<ClassEntry(Str(<<"C">>), Num(15))>>)) }

\* One accepted result with the entities field en.
EntitiesEnvelope(en) == Envelope(ResultsList(<<Result(OkStatus, en)>>))

\* Statuses and results of the envelopes with several results.
StatusSet ==
    { StatusOther("absent"),
      StatusObj(Absent),
      StatusObj(Str(<<>>)),
      StatusObj(Str(<<"O", "K">>)),
      StatusObj(Str(<<"s", "u", "c", "c", "e", "s", "s">>)),
      StatusObj(Str(<<"e", "r", "r", "o", "r">>)),
      StatusOther("null"),
      StatusObj(Num(7)) }

ResultEntitiesSet ==
    { EntitiesOther("absent"),
      EntitiesOther("null"),
      EntitiesList(<<Entity(ClassesList(<<ClassEntry(Str(<<"A">>), Num(5))>>))>>),
      EntitiesList(<<Entity(ClassesList(<<ClassEntry(Str(<<"B">>), Num(8))>>))>>),
      EntitiesList(<<Entity(ClassesList(<<ClassEntry(Str(<<"C">>), Num(15))>>))>>) }

ResultSet ==
    {StrResult} \cup {Result(st, en) : st \in StatusSet, en \in ResultEntitiesSet}

\* The envelopes of the model: a list of up to MaxClasses class entries, an
\* entities field of every shape with up to MaxEntities entities, a results
\* field of every shape with up to MaxResults results.
IsEnvelope(envelope) ==
    \/ \E k \in 0..MaxClasses : \E cs \in [1..k -> ClassEntrySet] :
           envelope = ClassListEnvelope(cs)
    \/ \E t \in {"absent", "null"} : envelope = EntitiesEnvelope(EntitiesOther(t))
    \/ \E k \in 0..MaxEntities : \E es \in [1..k -> EntitySet] :
           envelope = EntitiesEnvelope(EntitiesList(es))
    \/ \E t \in {"absent", "null", "num"} : envelope = Envelope(ResultsOther(t))
    \/ \E k \in 0..MaxResults : \E rs \in [1..k -> ResultSet] :
           envelope = Envelope(ResultsList(rs))

----------------------------------------------------------------------------
(* Settings *)

max_file_size_bytes == 10 * 1024 * 1024

allowed_content_types == {"image/jpeg", "image/png", "image/webp"}

allowed_extensions ==
    { <<".", "j", "p", "g">>, <<".", "j", "p", "e", "g">>,
      <<".", "p", "n", "g">>, <<".", "w", "e", "b", "p">> }

\* The configurations of the model: http_max_retries is an unvalidated int
\* (default 1), max_top_k is 10 by default.
SettingsSet ==
    [ http_max_retries : -1..MaxRetries,
      max_top_k : {1, 10},
      rapidapi_configured : BOOLEAN ]

----------------------------------------------------------------------------
(* Upstream responses *)

HTTP_200_OK == 200
HTTP_422_UNPROCESSABLE_ENTITY == 422
HTTP_500_INTERNAL_SERVER_ERROR == 500
HTTP_502_BAD_GATEWAY == 502
HTTP_503_SERVICE_UNAVAILABLE == 503

NoEnvelope == Envelope(ResultsOther("absent"))

\* A body is text that is not JSON, JSON that is not an object, or an object.
NonJsonBody == [kind |-> "text", envelope |-> NoEnvelope]
ArrayBody == [kind |-> "array", envelope |-> NoEnvelope]
ObjectBody(envelope) == [kind |-> "object", envelope |-> envelope]

Response(status_code, body) ==
    [kind |-> "response", status_code |-> status_code, body |-> body]
TimeoutException ==
    [kind |-> "timeout", status_code |-> 0, body |-> NonJsonBody]
RequestError ==
    [kind |-> "request_error", status_code |-> 0, body |-> NonJsonBody]

\* {"results": [{"status": {"code": "ok"}, "entities": [{"classes":
\*    [{"class": "A", "score": 0.5}, {"class": "B", "score": 0.8},
\*     {"class": "C", "score": 0.5}]}]}]}
EnvelopeThree ==
    Envelope(ResultsList(<<Result(OkStatus, EntitiesList(<<Entity(ClassesList(
        <<ClassEntry(Str(<<"A">>), Num(5)),
          ClassEntry(Str(<<"B">>), Num(8)),
          ClassEntry(Str(<<"C">>), Num(5))>>))>>))>>))

\* {"results": null}
EnvelopeNullResults == Envelope(ResultsOther("null"))

\* {"results": []}
EnvelopeEmptyResults == Envelope(ResultsList(<<>>))

\* classes [{"class": "A", "score": 0.5}, {"class": "B", "score": 1.5}]
EnvelopeScoreAboveOne ==
    ClassListEnvelope(<<ClassEntry(Str(<<"A">>), Num(5)),
                        ClassEntry(Str(<<"B">>), Num(15))>>)

\* classes [{"class": " ", "score": 1.5}, {"class": "A", "score": 0.5},
\*          {"class": "B", "score": 1.0}, {"class": "C", "score": 0}]
EnvelopeBlankAboveOne ==
    ClassListEnvelope(<<ClassEntry(Str(<<" ">>), Num(15)),
                        ClassEntry(Str(<<"A">>), Num(5)),
                        ClassEntry(Str(<<"B">>), Num(10)),
                        ClassEntry(Str(<<"C">>), Num(0))>>)

OkBodySet ==
    { NonJsonBody, ArrayBody, ObjectBody(NoEnvelope),
      ObjectBody(EnvelopeThree), ObjectBody(EnvelopeNullResults),
      ObjectBody(EnvelopeEmptyResults), ObjectBody(EnvelopeScoreAboveOne),
      ObjectBody(EnvelopeBlankAboveOne) }

ErrorStatusCodes == {401, 404, 429, 500, 502, 503, 504}

ResponseSet ==
    {Response(HTTP_200_OK, b) : b \in OkBodySet}
        \cup {Response(sc, NonJsonBody) : sc \in ErrorStatusCodes}
        \cup {Response(503, ObjectBody(EnvelopeThree))}

----------------------------------------------------------------------------
(* RapidAPIError and the outcome of _call_with_retry *)

None == [type |-> "None", message |-> "", status_code |-> {}]

\* RapidAPIError(message, status_code); status_code is {} for None
RapidAPIError(message, status_code) ==
    [type |-> "RapidAPIError", message |-> message, status_code |-> status_code]

\* What _parse_candidates raises: AttributeError, TypeError, ValidationError
NormalizerError ==
    [type |-> "Exception", message |-> "_parse_candidates", status_code |-> {}]

NotCalled ==
    [state |-> "none", exc |-> None, candidates |-> <<>>, raw |-> NoEnvelope,
     elapsed_ms |-> 0]
Running ==
    [state |-> "running", exc |-> None, candidates |-> <<>>, raw |-> NoEnvelope,
     elapsed_ms |-> 0]
CallRaised(exc) ==
    [state |-> "raised", exc |-> exc, candidates |-> <<>>, raw |-> NoEnvelope,
     elapsed_ms |-> 0]
\* return candidates, raw, elapsed_ms
CallReturned(candidates, envelope, elapsed_ms) ==
    [state |-> "returned", exc |-> None, candidates |-> candidates,
     raw |-> envelope, elapsed_ms |-> elapsed_ms]

----------------------------------------------------------------------------
(* Timing and logging of _call_with_retry *)

\* Mutant of AttemptStart: t0 is taken once, before the loop.
AttemptStart_before_loop(clock, previous, att) ==
    IF att = 1 THEN clock ELSE previous

\* t0 = time.perf_counter(), first statement of every iteration
AttemptStart(clock, previous, att) == clock

\* elapsed_ms = (time.perf_counter() - t0) * 1_000
ElapsedMs(clock, start) == clock - start

\* The upstream request issued at the clock value start.
Span(start) == [start |-> start, end |-> start]

\* The request in flight has ended.
CompleteSpan(ss, clock) == [ss EXCEPT ![Len(ss)].end = clock]

\* A log record: its level, its message, the fields the message is formatted
\* with, and the values of attempt, status and elapsed_ms when it has them.
LogRecord(level, event, fields, att, status, elapsed_ms) ==
    [ level |-> level, event |-> event, fields |-> fields, attempt |-> att,
      status |-> status, elapsed_ms |-> elapsed_ms ]

\* "RapidAPI response | request_id=%s attempt=%d status=%d elapsed_ms=%.1f"
ResponseRecord(att, status_code, elapsed_ms) ==
    LogRecord("info", "RapidAPI response",
              {"request_id", "attempt", "status", "elapsed_ms"},
              att, status_code, elapsed_ms)

\* "Retryable status %d for request_id=%s, retrying (attempt %d/%d)"
RetryRecord(att, status_code) ==
    LogRecord("warning", "Retryable status",
              {"status", "request_id", "attempt", "attempts"},
              att, status_code, 0)

\* "Timeout calling RapidAPI | request_id=%s attempt=%d elapsed_ms=%.1f"
TimeoutRecord(att, elapsed_ms) ==
    LogRecord("warning", "Timeout calling RapidAPI",
              {"request_id", "attempt", "elapsed_ms"}, att, 0, elapsed_ms)

\* "Request error calling RapidAPI | request_id=%s error=%s"
RequestErrorRecord ==
    LogRecord("warning", "Request error calling RapidAPI",
              {"request_id", "error"}, 0, 0, 0)

_RETRYABLE_STATUS_CODES == {429, 500, 502, 503, 504}

\* Mutant of Attempts: the first attempt is counted as a retry.
Attempts_without_first(max_retries) == max_retries

\* attempts = self._max_retries + 1
Attempts(max_retries) == max_retries + 1

\* Mutant of RetryStatus: every non-200 status is retried.
RetryStatus_any_status(status_code, att, attempts) == att < attempts

\* response.status_code in _RETRYABLE_STATUS_CODES and attempt < attempts
RetryStatus(status_code, att, attempts) ==
    status_code \in _RETRYABLE_STATUS_CODES /\ att < attempts

\* Mutant of RaiseAfterLoop: the generic error hides the last one.
RaiseAfterLoop_generic(last) == RapidAPIError("All retry attempts exhausted.", {})

\* raise last_exc or RapidAPIError("All retry attempts exhausted.")
RaiseAfterLoop(last) ==
    IF last = None THEN RapidAPIError("All retry attempts exhausted.", {})
    ELSE last

----------------------------------------------------------------------------
(* The endpoints *)

Min(a, b) == IF a <= b THEN a ELSE b

\* Mutant of Prefix: the slice keeps one element too many, as in seq[:n + 1].
Prefix_one_more(seq, n) == SubSeq(seq, 1, Min(n + 1, Len(seq)))

\* seq[:n] for n >= 0
Prefix(seq, n) == SubSeq(seq, 1, Min(n, Len(seq)))

\* Mutant of EffectiveTopK: the configured maximum is not applied.
EffectiveTopK_uncapped(top_k, max_top_k) == top_k

\* top_k = min(top_k, settings.max_top_k)
EffectiveTopK(top_k, max_top_k) == Min(top_k, max_top_k)

\* The upload of a request that has none (/url, or no request yet).
NoFile == [content_type |-> "", suffix |-> <<>>, size |-> 0]

NoRequest ==
    [endpoint |-> "none", top_k |-> 0, include_raw |-> FALSE,
     file |-> NoFile, url_valid |-> FALSE]

NoHttp == [status_code |-> 0, result |-> {}]

HTTPException(status_code) == [status_code |-> status_code, result |-> {}]

\* Mutant of UpstreamFailure: the upstream status is passed on when there is one.
UpstreamFailure_passes_status(exc) ==
    IF exc.type # "RapidAPIError" THEN HTTPException(HTTP_500_INTERNAL_SERVER_ERROR)
    ELSE IF exc.status_code = {} THEN HTTPException(HTTP_502_BAD_GATEWAY)
    ELSE HTTPException(CHOOSE sc \in exc.status_code : TRUE)

\* Mutant of UpstreamFailure: except Exception, every failure is a 502.
UpstreamFailure_except_all(exc) == HTTPException(HTTP_502_BAD_GATEWAY)

\* except RapidAPIError -> HTTPException(502); any other exception reaches
\* unhandled_exception_handler -> 500
UpstreamFailure(exc) ==
    IF exc.type = "RapidAPIError" THEN HTTPException(HTTP_502_BAD_GATEWAY)
    ELSE HTTPException(HTTP_500_INTERNAL_SERVER_ERROR)

\* Mutant of RecognizeResponse: candidate_count=len(candidates), the count
\* before the truncation.
RecognizeResponse_full_count(candidates, envelope, req, st) ==
    LET top_candidates ==
            Prefix(candidates, EffectiveTopK(req.top_k, st.max_top_k)) IN
    [ top_candidates |-> SortedByConfidence(top_candidates),
      candidate_count |-> Len(candidates),
      raw_response |-> IF req.include_raw THEN {envelope} ELSE {} ]

\* Mutant of RecognizeResponse: raw_response=raw, whatever include_raw is.
RecognizeResponse_always_raw(candidates, envelope, req, st) ==
    LET top_candidates ==
            Prefix(candidates, EffectiveTopK(req.top_k, st.max_top_k)) IN
    [ top_candidates |-> SortedByConfidence(top_candidates),
      candidate_count |-> Len(top_candidates),
      raw_response |-> {envelope} ]

\* top_k = min(top_k, settings.max_top_k); candidates[:top_k];
\* RecognizeResponse(...), whose validator sorts top_candidates again.
\* raw_response is {} for None.
RecognizeResponse(candidates, envelope, req, st) ==
    LET top_candidates ==
            Prefix(candidates, EffectiveTopK(req.top_k, st.max_top_k)) IN
    [ top_candidates |-> SortedByConfidence(top_candidates),
      candidate_count |-> Len(top_candidates),
      raw_response |-> IF req.include_raw THEN {envelope} ELSE {} ]

\* Mutant of TopKValid: Query(ge=0, le=10), zero is let through.
TopKValid_ge_zero(top_k) == top_k >= 0 /\ top_k <= 10

\* Query(ge=1, le=10)
TopKValid(top_k) == top_k >= 1 /\ top_k <= 10

\* Mutant of FileRejected: the check of the empty file is missing.
FileRejected_accepts_empty(file) ==
    \/ file.content_type # "" /\ file.content_type \notin allowed_content_types
    \/ lower(file.suffix) \notin allowed_extensions
    \/ file.size > max_file_size_bytes

\* _validate_upload_file, then the size checks of recognize_file
FileRejected(file) ==
    \/ file.content_type # "" /\ file.content_type \notin allowed_content_types
    \/ lower(file.suffix) \notin allowed_extensions
    \/ file.size > max_file_size_bytes
    \/ file.size = 0

FileSet ==
    [ content_type : {"image/jpeg", "image/gif", ""},
      suffix : {<<".", "j", "p", "g">>, <<".", "P", "N", "G">>,
                <<".", "g", "i", "f">>},
      size : {0, 1, max_file_size_bytes + 1} ]

TopKSet == {0, 1, 2, 11}

\* The request is answered without a call of the upstream API.
Reject(status_code) ==
    /\ pc' = "done"
    /\ http' = HTTPException(status_code)
    /\ UNCHANGED <<attempt, last_exc, sent, upstream, call, saved, t0, spans,
                   log>>

\* _call_with_retry ends (return or raise) and the endpoint answers.
Finish(outcome) ==
    /\ pc' = "done"
    /\ call' = outcome
    /\ IF outcome.state = "returned"
       THEN LET response == RecognizeResponse(outcome.candidates, outcome.raw,
                                               request, settings) IN
            /\ http' = [status_code |-> HTTP_200_OK, result |-> {response}]
            /\ \E disk_ok \in BOOLEAN :
                   saved' = IF disk_ok THEN {response} ELSE {}
       ELSE /\ http' = UpstreamFailure(outcome.exc)
            /\ saved' = {}

\* client.recognize_file / recognize_url -> _call_with_retry up to the first
\* await of request_fn
Call ==
    IF 1 <= Attempts(settings.http_max_retries)
    THEN /\ pc' = "awaiting"
         /\ attempt' = 1
         /\ sent' = sent + 1
         /\ call' = Running
         /\ t0' = AttemptStart(now, t0, 1)
         /\ spans' = Append(spans, Span(now))
         /\ UNCHANGED <<last_exc, upstream, http, saved, log>>
    ELSE /\ Finish(CallRaised(RaiseAfterLoop(last_exc)))
         /\ UNCHANGED <<attempt, last_exc, sent, upstream, t0, spans, log>>

\* POST /api/v1/recognize/file.  FastAPI resolves the _get_client dependency
\* (503) before it validates the query parameters (422); the body of the
\* handler runs after both.
recognize_file(file, top_k, include_raw) ==
    /\ pc = "idle"
    /\ request' = [endpoint |-> "file", top_k |-> top_k,
                   include_raw |-> include_raw,
                   file |-> file, url_valid |-> FALSE]
    /\ IF ~settings.rapidapi_configured
       THEN Reject(HTTP_503_SERVICE_UNAVAILABLE)
       ELSE IF ~TopKValid(top_k) \/ FileRejected(file)
       THEN Reject(HTTP_422_UNPROCESSABLE_ENTITY)
       ELSE Call
    /\ UNCHANGED <<settings, raw, norm, peer, now>>

\* POST /api/v1/recognize/url
recognize_url(url_valid, top_k, include_raw) ==
    /\ pc = "idle"
    /\ request' = [endpoint |-> "url", top_k |-> top_k,
                   include_raw |-> include_raw,
                   file |-> NoFile, url_valid |-> url_valid]
    /\ IF ~settings.rapidapi_configured
       THEN Reject(HTTP_503_SERVICE_UNAVAILABLE)
       ELSE IF ~TopKValid(top_k) \/ ~url_valid
       THEN Reject(HTTP_422_UNPROCESSABLE_ENTITY)
       ELSE Call
    /\ UNCHANGED <<settings, raw, norm, peer, now>>

\* raise inside the loop: leaves _call_with_retry at once
Raise(exc) ==
    /\ Finish(CallRaised(exc))
    /\ spans' = CompleteSpan(spans, now)
    /\ UNCHANGED <<attempt, last_exc, sent, t0>>

\* return candidates, raw, elapsed_ms
Return(candidates, envelope, elapsed_ms) ==
    /\ Finish(CallReturned(candidates, envelope, elapsed_ms))
    /\ spans' = CompleteSpan(spans, now)
    /\ UNCHANGED <<attempt, last_exc, sent, t0>>

\* last_exc = exc; continue: the next iteration issues the next request, and
\* the end of the range leaves the loop for the final raise
Continue(exc) ==
    /\ last_exc' = exc
    /\ IF attempt < Attempts(settings.http_max_retries)
       THEN /\ attempt' = attempt + 1
            /\ sent' = sent + 1
            /\ t0' = AttemptStart(now, t0, attempt + 1)
            /\ spans' = Append(CompleteSpan(spans, now), Span(now))
            /\ UNCHANGED <<pc, call, http, saved>>
       ELSE /\ Finish(CallRaised(RaiseAfterLoop(exc)))
            /\ spans' = CompleteSpan(spans, now)
            /\ UNCHANGED <<attempt, sent, t0>>

\* Mutant of BreakOrContinue: the break comes before last_exc = exc.
BreakOrContinue_break_first(exc) ==
    IF attempt = Attempts(settings.http_max_retries)
    THEN /\ Finish(CallRaised(RaiseAfterLoop(last_exc)))
         /\ spans' = CompleteSpan(spans, now)
         /\ UNCHANGED <<attempt, last_exc, sent, t0>>
    ELSE Continue(exc)

\* last_exc = exc; if attempt == attempts: break; continue
BreakOrContinue(exc) ==
    IF attempt = Attempts(settings.http_max_retries)
    THEN /\ last_exc' = exc
         /\ Finish(CallRaised(RaiseAfterLoop(exc)))
         /\ spans' = CompleteSpan(spans, now)
         /\ UNCHANGED <<attempt, sent, t0>>
    ELSE Continue(exc)

\* response = await request_fn(client) returns a response
UpstreamResponse(response) ==
    /\ pc = "awaiting"
    /\ upstream' = Append(upstream, response)
    /\ log' = Append(log, ResponseRecord(attempt, response.status_code,
                                         ElapsedMs(now, t0)))
              \o IF /\ response.status_code # HTTP_200_OK
                    /\ RetryStatus(response.status_code, attempt,
                                   Attempts(settings.http_max_retries))
                 THEN <<RetryRecord(attempt, response.status_code)>>
                 ELSE <<>>
    /\ IF response.status_code = HTTP_200_OK
       THEN IF response.body.kind = "text"
            THEN Raise(RapidAPIError("Upstream returned invalid JSON", {}))
            ELSE IF response.body.kind # "object"
            THEN Raise(RapidAPIError("Upstream response is not a JSON object", {}))
            ELSE LET parsed == _parse_candidates(response.body.envelope) IN
                 IF parsed.state = "raised" THEN Raise(NormalizerError)
                 ELSE Return(parsed.cands, response.body.envelope,
                             ElapsedMs(now, t0))
       ELSE IF RetryStatus(response.status_code, attempt,
                           Attempts(settings.http_max_retries))
       THEN Continue(RapidAPIError("Upstream returned",
                                   {response.status_code}))
       ELSE Raise(RapidAPIError("Upstream API returned HTTP",
                                {response.status_code}))
    /\ UNCHANGED <<settings, request, raw, norm, peer, now>>

\* await request_fn(client) raises httpx.TimeoutException
UpstreamTimeout ==
    /\ pc = "awaiting"
    /\ upstream' = Append(upstream, TimeoutException)
    /\ log' = Append(log, TimeoutRecord(attempt, ElapsedMs(now, t0)))
    /\ BreakOrContinue(RapidAPIError("Request timed out", {}))
    /\ UNCHANGED <<settings, request, raw, norm, peer, now>>

\* Mutant of UpstreamRequestError: the connection error is reported with the
\* words of the timeout.
UpstreamRequestError_as_timeout ==
    /\ pc = "awaiting"
    /\ upstream' = Append(upstream, RequestError)
    /\ log' = Append(log, RequestErrorRecord)
    /\ BreakOrContinue(RapidAPIError("Request timed out", {}))
    /\ UNCHANGED <<settings, request, raw, norm, peer, now>>

\* await request_fn(client) raises another httpx.RequestError
UpstreamRequestError ==
    /\ pc = "awaiting"
    /\ upstream' = Append(upstream, RequestError)
    /\ log' = Append(log, RequestErrorRecord)
    /\ BreakOrContinue(RapidAPIError("Request failed", {}))
    /\ UNCHANGED <<settings, request, raw, norm, peer, now>>

Idle ==
    /\ pc = "idle"
    /\ request = NoRequest
    /\ attempt = 0
    /\ last_exc = None
    /\ sent = 0
    /\ upstream = <<>>
    /\ call = NotCalled
    /\ http = NoHttp
    /\ saved = {}
    /\ t0 = 0
    /\ spans = <<>>
    /\ log = <<>>

\* The frame of a request that has not arrived.
IdleFrame ==
    [ pc |-> "idle", request |-> NoRequest, attempt |-> 0, last_exc |-> None,
      sent |-> 0, upstream |-> <<>>, call |-> NotCalled, http |-> NoHttp,
      saved |-> {}, t0 |-> 0, spans |-> <<>>, log |-> <<>> ]

Init ==
    /\ settings \in SettingsSet
    /\ Idle
    /\ peer = IdleFrame
    /\ now = 0
    /\ raw = NoEnvelope
    /\ norm = Pending

Next ==
    \/ \E file \in FileSet, top_k \in TopKSet, include_raw \in BOOLEAN :
           recognize_file(file, top_k, include_raw)
    \/ \E url_valid \in BOOLEAN, top_k \in TopKSet, include_raw \in BOOLEAN :
           recognize_url(url_valid, top_k, include_raw)
    \/ \E response \in ResponseSet : UpstreamResponse(response)
    \/ UpstreamTimeout
    \/ UpstreamRequestError

Spec == Init /\ [][Next]_vars

----------------------------------------------------------------------------
(* Two requests served concurrently by the event loop *)

\* What a request owns: the locals of its endpoint coroutine (its
\* RapidAPIClient from _get_client, its response) and the locals of its
\* _call_with_retry (attempt, last_exc).  settings is shared and read-only.
Frame ==
    [ pc |-> pc, request |-> request, attempt |-> attempt,
      last_exc |-> last_exc, sent |-> sent, upstream |-> upstream,
      call |-> call, http |-> http, saved |-> saved,
      t0 |-> t0, spans |-> spans, log |-> log ]

\* Mutant of Switch: attempt and last_exc are kept on an object the two
\* requests share, so the resumed request finds the other one's values.
Switch_shared_locals ==
    /\ peer' = Frame
    /\ pc' = peer.pc
    /\ request' = peer.request
    /\ sent' = peer.sent
    /\ upstream' = peer.upstream
    /\ call' = peer.call
    /\ http' = peer.http
    /\ saved' = peer.saved
    /\ t0' = peer.t0
    /\ spans' = peer.spans
    /\ log' = peer.log
    /\ UNCHANGED <<attempt, last_exc, settings, raw, norm, now>>

\* The event loop leaves the running request at its await of request_fn (or
\* before its start, or after its end) and resumes the other request.
Switch ==
    /\ peer' = Frame
    /\ pc' = peer.pc
    /\ request' = peer.request
    /\ attempt' = peer.attempt
    /\ last_exc' = peer.last_exc
    /\ sent' = peer.sent
    /\ upstream' = peer.upstream
    /\ call' = peer.call
    /\ http' = peer.http
    /\ saved' = peer.saved
    /\ t0' = peer.t0
    /\ spans' = peer.spans
    /\ log' = peer.log
    /\ UNCHANGED <<settings, raw, norm, now>>

\* The configurations, requests and upstream outcomes of the two requests.
ConcurrentSettingsSet ==
    [ http_max_retries : 0..MaxRetries,
      max_top_k : {10},
      rapidapi_configured : {TRUE} ]

ConcurrentFile ==
    [content_type |-> "image/jpeg", suffix |-> <<".", "j", "p", "g">>,
     size |-> 1]

ConcurrentResponseSet ==
    { Response(HTTP_200_OK, ObjectBody(EnvelopeThree)),
      Response(503, NonJsonBody),
      Response(401, NonJsonBody) }

InitConcurrent ==
    /\ settings \in ConcurrentSettingsSet
    /\ Idle
    /\ peer = IdleFrame
    /\ now = 0
    /\ raw = NoEnvelope
    /\ norm = Pending

NextConcurrent ==
    \/ \E top_k \in {1, 2} : recognize_file(ConcurrentFile, top_k, FALSE)
    \/ \E url_valid \in BOOLEAN : recognize_url(url_valid, 2, FALSE)
    \/ \E response \in ConcurrentResponseSet : UpstreamResponse(response)
    \/ UpstreamTimeout
    \/ Switch

SpecConcurrent == InitConcurrent /\ [][NextConcurrent]_vars

----------------------------------------------------------------------------
(* One request with the clock running *)

\* time.perf_counter() advances while the request awaits request_fn.
Tick ==
    /\ pc = "awaiting"
    /\ now - spans[Len(spans)].start < MaxAttemptMs
    /\ now' = now + 1
    /\ UNCHANGED <<raw, norm, settings, pc, request, attempt, last_exc, sent,
                   upstream, call, http, saved, peer, t0, spans, log>>

InitTimed ==
    /\ settings \in ConcurrentSettingsSet
    /\ Idle
    /\ peer = IdleFrame
    /\ now = 0
    /\ raw = NoEnvelope
    /\ norm = Pending

NextTimed ==
    \/ recognize_url(TRUE, 2, FALSE)
    \/ \E response \in ConcurrentResponseSet : UpstreamResponse(response)
    \/ UpstreamTimeout
    \/ UpstreamRequestError
    \/ Tick

SpecTimed == InitTimed /\ [][NextTimed]_vars

----------------------------------------------------------------------------
(* The normalizer applied to one envelope *)

DefaultSettings ==
    [http_max_retries |-> 1, max_top_k |-> 10, rapidapi_configured |-> TRUE]

InitParse ==
    /\ IsEnvelope(raw)
    /\ norm = Pending
    /\ settings = DefaultSettings
    /\ Idle
    /\ peer = IdleFrame
    /\ now = 0

\* candidates = RapidAPIClient._parse_candidates(raw)
Normalize ==
    /\ norm.state = "pending"
    /\ norm' = _parse_candidates(raw)
    /\ UNCHANGED <<raw, dispatchVars>>

NextParse == Normalize

SpecParse == InitParse /\ [][NextParse]_vars

----------------------------------------------------------------------------
(* Properties of the normalizer, checked under SpecParse *)

Range(seq) == {seq[i] : i \in 1..Len(seq)}

IsSortedDescending(cands) ==
    \A i, j \in 1..Len(cands) : i < j => cands[i].confidence >= cands[j].confidence

WithConfidence(cands, c) == SelectSeq(cands, LAMBDA x : x.confidence = c)

\* C6: the sequence the normalizer returns is sorted by confidence in
\* descending order, and the candidates of any one confidence appear in the
\* order in which the envelope listed them.
C6_SortedStable ==
    norm.state = "returned" =>
        /\ IsSortedDescending(norm.cands)
        /\ \A c \in ConfidenceGe..ConfidenceLe :
               WithConfidence(norm.cands, c)
                   = WithConfidence(CollectCandidates(raw).cands, c)

\* The sort moved a candidate, and two candidates with different labels tie.
C6_Witness ==
    /\ norm.state = "returned"
    /\ Len(norm.cands) >= 3
    /\ norm.cands # CollectCandidates(raw).cands
    /\ \E i, j \in 1..Len(norm.cands) :
           /\ i < j
           /\ norm.cands[i].confidence = norm.cands[j].confidence
           /\ norm.cands[i].label # norm.cands[j].label

\* The list of {class, score} objects that holds the pairs of a mapping.
C7_ClassesAsList(classes) ==
    IF classes.t = "map"
    THEN ClassesList([i \in 1..Len(classes.pairs) |->
             ClassEntry(Str(classes.pairs[i].key), classes.pairs[i].value)])
    ELSE classes

C7_EntitiesAsLists(entities) ==
    [entities EXCEPT !.items =
        [i \in 1..Len(@) |-> [@[i] EXCEPT !.classes = C7_ClassesAsList(@)]]]

C7_MappingsAsLists(envelope) ==
    [envelope EXCEPT !.results.items =
        [i \in 1..Len(@) |-> [@[i] EXCEPT !.entities = C7_EntitiesAsLists(@)]]]

\* C7: an envelope whose classes fields are mappings from label to score is
\* normalized to the candidates of the envelope that holds the same pairs as
\* lists of {class, score} objects.
C7_MappingEqualsList ==
    norm.state # "pending" => norm = _parse_candidates(C7_MappingsAsLists(raw))

\* C8: the normalizer never raises, whatever the envelope holds.
C8_NeverRaises == norm.state # "raised"

\* code equals the word, whatever the case of its letters
C9_SpelledAs(code, lo, up) ==
    /\ Len(code) = Len(lo)
    /\ \A i \in 1..Len(lo) : code[i] \in {lo[i], up[i]}

C9_AcceptedCode(code) ==
    \/ code = <<>>
    \/ C9_SpelledAs(code, <<"o", "k">>, <<"O", "K">>)
    \/ C9_SpelledAs(code, <<"s", "u", "c", "c", "e", "s", "s">>,
                          <<"S", "U", "C", "C", "E", "S", "S">>)

C9_HasCode(result) ==
    result.t = "obj" /\ result.status.t = "obj" /\ result.status.code.t = "str"

\* status.code is present and is not an accepted code
C9_Rejected(result) ==
    C9_HasCode(result) /\ ~C9_AcceptedCode(result.status.code.s)

\* status or status.code is missing or empty, or the code is an accepted one
C9_Accepted(result) ==
    /\ result.t = "obj"
    /\ \/ result.status.t = "absent"
       \/ result.status.t = "obj" /\ result.status.code.t = "absent"
       \/ C9_HasCode(result) /\ C9_AcceptedCode(result.status.code.s)

C9_WithoutRejected(envelope) ==
    [envelope EXCEPT !.results.items =
        SelectSeq(@, LAMBDA r : ~C9_Rejected(r))]

C9_AcceptedAsOk(envelope) ==
    [envelope EXCEPT !.results.items =
        [i \in 1..Len(@) |->
            IF C9_Accepted(@[i]) THEN [@[i] EXCEPT !.status = OkStatus]
            ELSE @[i]]]

\* C9: a result whose status code is present and is not "ok", "success" or ""
\* (whatever the case) contributes nothing: the outcome is that of the
\* envelope without it.  A result whose status or code is missing or empty,
\* or whose code is accepted, contributes what it contributes with the code
\* "ok".  The other results contribute the same in both cases.
C9_StatusGate ==
    norm.state # "pending" =>
        /\ norm = _parse_candidates(C9_WithoutRejected(raw))
        /\ norm = _parse_candidates(C9_AcceptedAsOk(raw))

\* A rejected result that lists a candidate is dropped, next to a result
\* without a status and a result with the code "OK" whose candidates are kept.
C9_Witness ==
    /\ norm.state = "returned"
    /\ raw.results.t = "list"
    /\ \E r \in Range(raw.results.items) :
           /\ C9_Rejected(r)
           /\ _parse_candidates(Envelope(ResultsList(
                  <<[r EXCEPT !.status = OkStatus]>>))).cands # <<>>
    /\ \E r \in Range(raw.results.items) :
           /\ r.t = "obj" /\ r.status.t \in {"absent", "obj"}
           /\ r.status.t = "obj" => r.status.code.s # <<"o", "k">>
           /\ C9_Accepted(r)
    /\ norm.cands # <<>>

C10_Blank(label) == \A i \in 1..Len(label) : label[i] \in Whitespace

\* out is label without its leading and trailing whitespace
C10_IsTrimOf(out, label) ==
    /\ out # <<>>
    /\ out[1] \notin Whitespace /\ out[Len(out)] \notin Whitespace
    /\ \E k \in 0..(Len(label) - Len(out)) :
           /\ SubSeq(label, k + 1, k + Len(out)) = out
           /\ C10_Blank(SubSeq(label, 1, k))
           /\ C10_Blank(SubSeq(label, k + Len(out) + 1, Len(label)))

\* The (label, score) pairs an entity lists, in either shape of classes.
C10_EntityPairs(entity) ==
    IF entity.t # "obj" THEN {}
    ELSE IF entity.classes.t = "list"
    THEN {[label |-> e.class.s, score |-> e.score.n] :
            e \in {x \in Range(entity.classes.items) :
                     x.t = "obj" /\ x.class.t = "str" /\ x.score.t = "num"}}
    ELSE IF entity.classes.t = "map"
    THEN {[label |-> p.key, score |-> p.value.n] :
            p \in {x \in Range(entity.classes.pairs) : x.value.t = "num"}}
    ELSE {}

\* The pairs of the accepted results of an envelope.
C10_Pairs(envelope) ==
    IF envelope.results.t # "list" THEN {}
    ELSE UNION {
        IF C9_Accepted(r) /\ r.entities.t = "list"
        THEN UNION {C10_EntityPairs(e) : e \in Range(r.entities.items)}
        ELSE {} : r \in Range(envelope.results.items)}

\* C10: no candidate of the output has an empty or whitespace-only label, and
\* every pair of an accepted result whose label is not blank (and whose score
\* is a confidence) is kept, its label stored without surrounding whitespace.
C10_LabelsKept ==
    norm.state # "pending" =>
        /\ \A i \in 1..Len(norm.cands) : ~C10_Blank(norm.cands[i].label)
        /\ \A p \in C10_Pairs(raw) :
               (~C10_Blank(p.label) /\ p.score \in ConfidenceGe..ConfidenceLe) =>
                   /\ norm.state = "returned"
                   /\ \E i \in 1..Len(norm.cands) :
                          /\ C10_IsTrimOf(norm.cands[i].label, p.label)
                          /\ norm.cands[i].confidence = p.score

----------------------------------------------------------------------------
(* Properties of the dispatcher and the endpoints, checked under Spec *)

\* The outcome of an attempt is a retryable failure.
RetryableFailure(outcome) ==
    \/ outcome.kind \in {"timeout", "request_error"}
    \/ /\ outcome.kind = "response"
       /\ outcome.status_code \in {429, 500, 502, 503, 504}

\* The outcome of an attempt is a terminal failure.
TerminalFailure(outcome) ==
    /\ outcome.kind = "response"
    /\ \/ outcome.status_code \notin {200, 429, 500, 502, 503, 504}
       \/ outcome.status_code = 200 /\ outcome.body.kind # "object"

\* The outcome of an attempt is HTTP 200 with a JSON object body.
Success(outcome) ==
    /\ outcome.kind = "response"
    /\ outcome.status_code = 200
    /\ outcome.body.kind = "object"

AllRetryableFailures(outcomes) ==
    \A k \in 1..Len(outcomes) : RetryableFailure(outcomes[k])

Dispatched == call.state # "none"

\* C1: a dispatch call never issues more than max_retries + 1 upstream
\* requests, and when every attempt was a retryable failure it ends, failed,
\* after exactly max_retries + 1 of them.
C1_AttemptBudget ==
    /\ sent <= settings.http_max_retries + 1
    /\ (Dispatched /\ pc = "done" /\ AllRetryableFailures(upstream)) =>
           /\ sent = settings.http_max_retries + 1
           /\ Len(upstream) = settings.http_max_retries + 1
           /\ call.state = "raised"
           /\ call.exc.type = "RapidAPIError"

\* Three retryable failures of three kinds under max_retries = 2.
C1_Witness ==
    /\ pc = "done"
    /\ settings.http_max_retries = 2
    /\ Len(upstream) = 3
    /\ AllRetryableFailures(upstream)
    /\ {upstream[k].kind : k \in 1..3} = {"timeout", "request_error", "response"}
    /\ call.state = "raised"

\* C2: a terminal failure is the last attempt of its call, whatever retries
\* remain: the call has ended with a RapidAPIError for that attempt, which
\* carries the status when the failure was a status and none when the failure
\* was the body.
C2_TerminalEndsCall ==
    \A k \in 1..Len(upstream) :
        TerminalFailure(upstream[k]) =>
            /\ k = Len(upstream)
            /\ sent = k
            /\ pc = "done"
            /\ call.state = "raised"
            /\ call.exc.type = "RapidAPIError"
            /\ IF upstream[k].status_code = 200
               THEN /\ call.exc.status_code = {}
                    /\ call.exc.message =
                           IF upstream[k].body.kind = "text"
                           THEN "Upstream returned invalid JSON"
                           ELSE "Upstream response is not a JSON object"
               ELSE call.exc.status_code = {upstream[k].status_code}

\* A 401 on the second attempt ends a call that had a retry left.
C2_Witness ==
    /\ settings.http_max_retries = 2
    /\ Len(upstream) = 2
    /\ upstream[2].kind = "response" /\ upstream[2].status_code = 401
    /\ pc = "done"
    /\ call.exc.status_code = {401}

\* C3: when the attempts before the last were retryable failures and the last
\* one returned HTTP 200 with a JSON object body, the call has succeeded and
\* returns the envelope of that attempt and the candidates normalized from it.
C3_SuccessAfterRetries ==
    (/\ upstream # <<>>
     /\ Success(upstream[Len(upstream)])
     /\ AllRetryableFailures(SubSeq(upstream, 1, Len(upstream) - 1))) =>
        /\ pc = "done"
        /\ call.state = "returned"
        /\ call.raw = upstream[Len(upstream)].body.envelope
        /\ Returned(call.candidates)
               = _parse_candidates(upstream[Len(upstream)].body.envelope)

\* C4: when every attempt was a retryable failure, the error raised is the
\* one of the final attempt: its status when that attempt ended in a status,
\* no status and the timeout / connection message otherwise.
C4_LastErrorSurfaces ==
    (/\ pc = "done"
     /\ upstream # <<>>
     /\ AllRetryableFailures(upstream)) =>
        LET final == upstream[Len(upstream)] IN
        /\ call.state = "raised"
        /\ call.exc.type = "RapidAPIError"
        /\ final.kind = "response" =>
               call.exc.status_code = {final.status_code}
        /\ final.kind = "timeout" =>
               /\ call.exc.status_code = {}
               /\ call.exc.message = "Request timed out"
        /\ final.kind = "request_error" =>
               /\ call.exc.status_code = {}
               /\ call.exc.message = "Request failed"

\* 503 and then a timeout: the timeout surfaces.
C4_Witness ==
    /\ pc = "done"
    /\ Len(upstream) = 2
    /\ upstream[1].kind = "response" /\ upstream[1].status_code = 503
    /\ upstream[2].kind = "timeout"
    /\ call.exc.message = "Request timed out"
    /\ call.exc.status_code = {}

\* The call failed the way the dispatcher fails: on a timeout, a connection
\* error, a non-200 status, a body that is not JSON or not a JSON object, or
\* without an attempt left to make.
DispatcherFailure ==
    /\ Dispatched
    /\ pc = "done"
    /\ \/ upstream = <<>>
       \/ ~Success(upstream[Len(upstream)])

\* C5: every failure of the dispatcher is answered with HTTP 502 by /file and
\* by /url, and no recognition result is produced or saved.
C5_UpstreamFailureIs502 ==
    DispatcherFailure =>
        /\ request.endpoint \in {"file", "url"}
        /\ http.status_code = 502
        /\ http.result = {}
        /\ saved = {}

\* /url answers 502 to a terminal 401 that followed a retried failure.
C5_Witness ==
    /\ DispatcherFailure
    /\ request.endpoint = "url"
    /\ Len(upstream) = 2
    /\ upstream[2].kind = "response" /\ upstream[2].status_code = 401
    /\ http.status_code = 502

----------------------------------------------------------------------------
(* Properties of the recognition result, checked under Spec *)

\* The outcome of the attempt that ended the call.
FinalOutcome == upstream[Len(upstream)]

C11_EmptyResults(envelope) ==
    \/ envelope.results.t = "absent"
    \/ envelope.results.t = "list" /\ envelope.results.items = <<>>

\* C11: an envelope whose results field is absent or an empty list is
\* normalized to the empty candidate sequence without an error, and the
\* request that received it is answered 200 with zero candidates.
C11_EmptyResultsSucceed ==
    (/\ upstream # <<>>
     /\ Success(FinalOutcome)
     /\ C11_EmptyResults(FinalOutcome.body.envelope)) =>
        /\ pc = "done"
        /\ call.state = "returned"
        /\ call.candidates = <<>>
        /\ http.status_code = 200
        /\ http.result # {}
        /\ \A r \in http.result :
               r.top_candidates = <<>> /\ r.candidate_count = 0

\* {"results": []} on the second attempt, after a retried 503.
C11_Witness ==
    /\ pc = "done"
    /\ Len(upstream) = 2
    /\ Success(FinalOutcome)
    /\ FinalOutcome.body.envelope.results.t = "list"
    /\ FinalOutcome.body.envelope.results.items = <<>>
    /\ http.status_code = 200
    /\ \E r \in http.result : r.candidate_count = 0

\* C12: a successful response holds at most min(top_k, max_top_k) candidates,
\* and they are the first ones of the sequence the normalizer returned for
\* the envelope of the successful attempt.
C12_AtMostLimit ==
    \A r \in http.result :
        /\ Len(r.top_candidates) <= request.top_k
        /\ Len(r.top_candidates) <= settings.max_top_k
        /\ call.state = "returned"
        /\ Returned(call.candidates)
               = _parse_candidates(FinalOutcome.body.envelope)
        /\ Len(r.top_candidates) <= Len(call.candidates)
        /\ r.top_candidates
               = SubSeq(call.candidates, 1, Len(r.top_candidates))

\* top_k = 2 under max_top_k = 1: one candidate of the three is returned.
C12_Witness ==
    /\ request.top_k = 2
    /\ settings.max_top_k = 1
    /\ Len(call.candidates) = 3
    /\ \E r \in http.result : Len(r.top_candidates) = 1

\* C13: candidate_count of a successful result is the number of candidates
\* in its top_candidates list.
C13_CountIsTruncated ==
    \A r \in http.result : r.candidate_count = Len(r.top_candidates)

\* Two of three candidates are returned and counted.
C13_Witness ==
    /\ Len(call.candidates) = 3
    /\ \E r \in http.result :
           r.candidate_count = 2 /\ Len(r.top_candidates) = 2

\* C14 as stated: candidate_count is the number of candidates the normalizer
\* produced, before the truncation to the limit.
C14_CountBeforeTruncation ==
    \A r \in http.result : r.candidate_count = Len(call.candidates)

C14_Smallest(a, b, c) ==
    CHOOSE m \in {a, b, c} : m <= a /\ m <= b /\ m <= c

\* C14, amended: candidate_count is the number of candidates left after the
\* truncation, the smallest of the number the normalizer produced, top_k and
\* max_top_k; it is below the number produced whenever the limit is.
C14_CountAfterTruncation ==
    \A r \in http.result :
        /\ r.candidate_count
               = C14_Smallest(Len(call.candidates), request.top_k,
                              settings.max_top_k)
        /\ (request.top_k < Len(call.candidates)
               \/ settings.max_top_k < Len(call.candidates)) =>
               r.candidate_count < Len(call.candidates)

\* Three candidates were produced and the count is 1.
C14_Witness ==
    /\ Len(call.candidates) = 3
    /\ request.top_k = 1
    /\ \E r \in http.result : r.candidate_count = 1

\* C15 as stated: a request with top_k = 0 succeeds with an empty list.
C15_ZeroLimitSucceeds ==
    (pc = "done" /\ request.endpoint # "none" /\ request.top_k = 0) =>
        /\ http.status_code = 200
        /\ http.result # {}
        /\ \A r \in http.result : r.top_candidates = <<>>

\* C15, amended: a request with top_k = 0 is rejected before any upstream
\* attempt, with 422 (503 when the credentials are not configured), and has
\* no result.
C15_ZeroLimitRejected ==
    (pc = "done" /\ request.endpoint # "none" /\ request.top_k = 0) =>
        /\ http.status_code =
               IF settings.rapidapi_configured THEN 422 ELSE 503
        /\ http.result = {}
        /\ sent = 0
        /\ call.state = "none"

\* top_k = 0 with a valid URL and configured credentials: 422.
C15_Witness ==
    /\ pc = "done"
    /\ request.endpoint = "url" /\ request.url_valid
    /\ request.top_k = 0
    /\ settings.rapidapi_configured
    /\ http.status_code = 422

\* C16: raw_response of a result is null when include_raw is false and is
\* the envelope of the successful attempt when include_raw is true.
C16_RawOnlyOnOptIn ==
    \A r \in http.result :
        r.raw_response =
            IF request.include_raw THEN {FinalOutcome.body.envelope} ELSE {}

\* include_raw: the envelope of attempt 2 is attached, not the body of the
\* 503 of attempt 1.
C16_Witness ==
    /\ request.include_raw
    /\ Len(upstream) = 2
    /\ upstream[1].body.kind = "object"
    /\ upstream[1].body.envelope # upstream[2].body.envelope
    /\ \E r \in http.result : r.raw_response = {upstream[2].body.envelope}

\* The suffix is one of .jpg, .jpeg, .png, .webp, whatever the case.
C17_ExtensionAllowed(suffix) ==
    \/ C9_SpelledAs(suffix, <<".", "j", "p", "g">>, <<".", "J", "P", "G">>)
    \/ C9_SpelledAs(suffix, <<".", "j", "p", "e", "g">>,
                             <<".", "J", "P", "E", "G">>)
    \/ C9_SpelledAs(suffix, <<".", "p", "n", "g">>, <<".", "P", "N", "G">>)
    \/ C9_SpelledAs(suffix, <<".", "w", "e", "b", "p">>,
                             <<".", "W", "E", "B", "P">>)

\* The request passes the gates: credentials, top_k, and the upload (type,
\* extension, size) or the URL.
C17_PassesGates(req) ==
    /\ settings.rapidapi_configured
    /\ req.top_k >= 1 /\ req.top_k <= 10
    /\ req.endpoint = "file" =>
           /\ req.file.content_type
                  \in {"", "image/jpeg", "image/png", "image/webp"}
           /\ C17_ExtensionAllowed(req.file.suffix)
           /\ req.file.size >= 1
           /\ req.file.size <= 10 * 1024 * 1024
    /\ req.endpoint = "url" => req.url_valid

\* C17: an upstream attempt is made only for a request that passed every
\* gate; a request rejected with 503 or 422 made no upstream attempt, and a
\* request that fails a gate is rejected so.
C17_GatesBeforeUpstream ==
    /\ (sent > 0 \/ upstream # <<>> \/ call.state # "none") =>
           C17_PassesGates(request)
    /\ (pc = "done" /\ http.status_code \in {422, 503}) =>
           /\ sent = 0
           /\ upstream = <<>>
           /\ call.state = "none"
    /\ (pc = "done" /\ ~C17_PassesGates(request)) =>
           /\ http.status_code
                  = IF settings.rapidapi_configured THEN 422 ELSE 503
           /\ sent = 0

\* An empty upload, everything else valid: 422 and no attempt.
C17_Witness ==
    /\ pc = "done"
    /\ request.endpoint = "file"
    /\ request.file.size = 0
    /\ C17_PassesGates([request EXCEPT !.file.size = 1])
    /\ http.status_code = 422
    /\ sent = 0

C18_HasScoreOutside(envelope) ==
    /\ envelope.results.t = "list"
    /\ \E r \in Range(envelope.results.items) :
       \E e \in Range(r.entities.items) :
       \E c \in Range(e.classes.items) :
           c.score.t = "num" /\ (c.score.n < 0 \/ c.score.n > 10)

\* C18: every candidate of a successful result has a confidence in
\* [0.0, 1.0], whatever scores the envelope held.
C18_ConfidenceInRange ==
    \A r \in http.result :
        \A i \in 1..Len(r.top_candidates) :
            /\ r.top_candidates[i].confidence >= 0
            /\ r.top_candidates[i].confidence <= 10

\* A result from an envelope that held the score 1.5 (on a blank label),
\* with a candidate at the upper end of the range.
C18_Witness ==
    /\ http.status_code = 200
    /\ C18_HasScoreOutside(FinalOutcome.body.envelope)
    /\ \E r \in http.result :
           /\ Len(r.top_candidates) = 2
           /\ r.top_candidates[1].confidence = 10
           /\ r.top_candidates[2].confidence = 5

\* The cause of the failure of an attempt.
C19_Cause(outcome) ==
    IF outcome.kind = "timeout" THEN "timeout"
    ELSE IF outcome.kind = "request_error" THEN "connection"
    ELSE IF outcome.status_code # 200 THEN "status"
    ELSE IF outcome.body.kind = "text" THEN "non-json"
    ELSE IF outcome.body.kind = "array" THEN "non-object"
    ELSE "none"

\* What the error tells about its cause.
C19_CauseOf(exc) ==
    IF exc.message = "Request timed out" THEN "timeout"
    ELSE IF exc.message = "Request failed" THEN "connection"
    ELSE IF exc.message = "Upstream API returned HTTP" THEN "status"
    ELSE IF exc.message = "Upstream returned invalid JSON" THEN "non-json"
    ELSE IF exc.message = "Upstream response is not a JSON object"
    THEN "non-object"
    ELSE "none"

\* C19: the error of a failed dispatch tells which of the five causes ended
\* it (timeout, connection error, non-200 status, non-JSON body, non-object
\* body), and its status_code is the upstream status when the cause is a
\* non-200 status and is absent otherwise.
C19_FailureClassified ==
    (/\ pc = "done"
     /\ upstream # <<>>
     /\ C19_Cause(FinalOutcome) # "none") =>
        /\ call.state = "raised"
        /\ call.exc.type = "RapidAPIError"
        /\ C19_CauseOf(call.exc) = C19_Cause(FinalOutcome)
        /\ call.exc.status_code =
               IF C19_Cause(FinalOutcome) = "status"
               THEN {FinalOutcome.status_code}
               ELSE {}

\* A connection error on the last attempt, after a timeout and a 503.
C19_Witness ==
    /\ pc = "done"
    /\ Len(upstream) = 3
    /\ upstream[1].kind = "timeout"
    /\ upstream[2].kind = "response" /\ upstream[2].status_code = 503
    /\ upstream[3].kind = "request_error"
    /\ call.exc.message = "Request failed"
    /\ call.exc.status_code = {}

----------------------------------------------------------------------------
(* Properties of concurrent requests, checked under SpecConcurrent *)

\* The attempts of a request are counted against its own history.
C20_OwnBudget(f) ==
    /\ f.sent <= settings.http_max_retries + 1
    /\ f.pc = "awaiting" =>
           /\ f.attempt = Len(f.upstream) + 1
           /\ f.sent = f.attempt
    /\ f.pc = "done" => f.sent = Len(f.upstream)
    /\ (f.pc = "done" /\ f.call.state # "none"
           /\ AllRetryableFailures(f.upstream)) =>
           /\ Len(f.upstream) = settings.http_max_retries + 1
           /\ f.call.state = "raised"
           /\ f.call.exc.type = "RapidAPIError"
    /\ \A k \in 1..Len(f.upstream) :
           (Success(f.upstream[k]) \/ TerminalFailure(f.upstream[k])) =>
               k = Len(f.upstream) /\ f.pc = "done"

\* Two requests that saw the same outcomes stand at the same point with the
\* same error or result.
C20_SameOutcomes(f, g) ==
    (/\ f.upstream = g.upstream
     /\ f.pc = g.pc
     /\ f.call.state # "none" /\ g.call.state # "none") =>
        /\ f.attempt = g.attempt
        /\ f.last_exc = g.last_exc
        /\ f.sent = g.sent
        /\ f.call = g.call
        /\ f.request = g.request => f.http = g.http

\* The last error of a request is the error of its own last retried attempt.
C20_OwnLastError(f) ==
    (f.pc = "awaiting" /\ f.upstream # <<>>) =>
        LET last == f.upstream[Len(f.upstream)] IN
        /\ f.last_exc.type = "RapidAPIError"
        /\ f.last_exc.status_code =
               IF last.kind = "response" THEN {last.status_code} ELSE {}

\* C20: under every interleaving of two requests, each request counts its
\* own attempts against its own budget and keeps its own last error, and the
\* number of its attempts and its result or error are determined by the
\* outcomes of its own attempts.
C20_RequestsIndependent ==
    /\ C20_OwnBudget(Frame) /\ C20_OwnBudget(peer)
    /\ C20_OwnLastError(Frame) /\ C20_OwnLastError(peer)
    /\ C20_SameOutcomes(Frame, peer)

\* Both requests are in flight after retries of their own, with different
\* histories.
C20_Witness ==
    /\ pc = "awaiting" /\ peer.pc = "awaiting"
    /\ Len(upstream) = 2 /\ Len(peer.upstream) = 1
    /\ upstream[2].kind = "timeout"
    /\ peer.upstream[1].kind = "response"
    /\ attempt = 3 /\ peer.attempt = 2

----------------------------------------------------------------------------
(* Properties of the log and of elapsed_ms, checked under SpecTimed *)

\* The duration of the k-th upstream request.
AttemptDuration(k) == spans[k].end - spans[k].start

\* The record tells the correlation identifier, the number k of the attempt,
\* its outcome (the status of a response; the message names a timeout or a
\* connection error) and its elapsed time.
C21_RecordOfAttempt(rec, k) ==
    /\ {"request_id", "attempt", "elapsed_ms"} \subseteq rec.fields
    /\ rec.attempt = k
    /\ rec.elapsed_ms = AttemptDuration(k)
    /\ upstream[k].kind = "response" =>
           /\ "status" \in rec.fields
           /\ rec.status = upstream[k].status_code
    /\ upstream[k].kind = "timeout" =>
           rec.event = "Timeout calling RapidAPI"
    /\ upstream[k].kind = "request_error" =>
           rec.event = "Request error calling RapidAPI"

\* C21: the dispatch call has emitted exactly one log record per upstream
\* attempt made, whatever the outcome of the attempt, and the record of an
\* attempt holds the correlation identifier, the attempt number, the outcome
\* status and the elapsed time.
C21_OneRecordPerAttempt ==
    /\ Len(log) = Len(upstream)
    /\ \A k \in 1..Len(upstream) :
           k <= Len(log) => C21_RecordOfAttempt(log[k], k)

\* C22: the elapsed_ms a successful dispatch returns is the duration of the
\* attempt that succeeded, without the durations of the attempts before it.
C22_ElapsedOfLastAttempt ==
    call.state = "returned" =>
        /\ Len(spans) = Len(upstream)
        /\ call.elapsed_ms = AttemptDuration(Len(spans))
        /\ call.elapsed_ms <= now - spans[Len(spans)].start
        /\ \A k \in 1..(Len(spans) - 1) :
               AttemptDuration(k) > 0 => call.elapsed_ms < now - spans[1].start

\* Success on the third attempt, which took 1 ms, after two retried attempts
\* of 2 ms each.
C22_Witness ==
    /\ call.state = "returned"
    /\ Len(spans) = 3
    /\ AttemptDuration(1) = 2
    /\ AttemptDuration(2) = 2
    /\ AttemptDuration(3) = 1
    /\ now = 5
    /\ call.elapsed_ms = 1

----------------------------------------------------------------------------
(* Properties of the end of the dispatch, checked under Spec *)

C23_Generic == "All retry attempts exhausted."

\* C23: with max_retries >= 0 a call that fails has made at least one
\* upstream attempt and its error is the one of its final attempt; the error
\* "All retry attempts exhausted." is raised only with max_retries < 0, after
\* zero attempts.
C23_FallbackOnlyWithoutAttempts ==
    (pc = "done" /\ call.state = "raised") =>
        /\ settings.http_max_retries >= 0 =>
               /\ sent >= 1
               /\ upstream # <<>>
               /\ call.exc.message # C23_Generic
               /\ \/ /\ Success(FinalOutcome)
                     /\ call.exc = NormalizerError
                  \/ /\ ~Success(FinalOutcome)
                     /\ C19_CauseOf(call.exc) = C19_Cause(FinalOutcome)
        /\ settings.http_max_retries < 0 =>
               /\ call.exc.message = C23_Generic
               /\ call.exc.type = "RapidAPIError"
               /\ sent = 0
               /\ upstream = <<>>

\* max_retries = -1: the call fails with the fallback error, without an
\* attempt.
C23_Witness ==
    /\ pc = "done"
    /\ settings.http_max_retries = -1
    /\ call.state = "raised"
    /\ call.exc.message = C23_Generic
    /\ sent = 0
    /\ http.status_code = 502

\* C24: an attempt answered 200 with a JSON object body is the last of its
\* call; when the normalizer raises on that body, what leaves the call is not
\* a RapidAPIError, no attempt follows even with retries left, and the
\* endpoint answers 500, not 502.
C24_NormalizerErrorIs500 ==
    \A k \in 1..Len(upstream) :
        Success(upstream[k]) =>
            /\ k = Len(upstream)
            /\ sent = k
            /\ pc = "done"
            /\ _parse_candidates(upstream[k].body.envelope).state = "raised" =>
                   /\ call.state = "raised"
                   /\ call.exc.type # "RapidAPIError"
                   /\ http.status_code = 500
                   /\ http.result = {}
                   /\ saved = {}

\* {"results": null} on the second of three allowed attempts: 500.
C24_Witness ==
    /\ settings.http_max_retries = 2
    /\ Len(upstream) = 2
    /\ sent = 2
    /\ Success(upstream[2])
    /\ upstream[2].body.envelope.results.t = "null"
    /\ pc = "done"
    /\ http.status_code = 500

====
